---- MODULE Spec2Model ----
(***************************************************************************)
(* A model of registration/core.py (meshmonk): the affinity builder, the   *)
(* affinity fuser, the correspondence resolver, the inlier classifier and  *)
(* the rigid transformation estimator.                                     *)
(*                                                                         *)
(* Numbers.  The floats of Python and numpy are modelled in IEEE 754       *)
(* binary64 itself: +, -, *, / and np.sqrt are rounded to nearest even as  *)
(* the hardware rounds them, with nan, the infinities, the signed zeros    *)
(* and the subnormal numbers; a division by zero in numpy only warns and   *)
(* gives inf or nan.  np.exp is not correctly rounded by the library: its  *)
(* result is either of the two floats next to e^x, the same one for the    *)
(* same argument within a call.  An inner product, an accumulating loop    *)
(* and ndarray.sum over a row of fewer than 8 entries add their terms one  *)
(* after the other, from the first on, starting from 0.0.                  *)
(*                                                                         *)
(* Libraries.  np.linalg.eig (LAPACK) is no part of the repository.  Of a  *)
(* diagonal matrix it returns the diagonal in its order with the identity  *)
(* as eigenvectors.  Of another matrix the model computes the eigenpairs   *)
(* by Jacobi rotations in floats and takes every order of them and every   *)
(* sign of each eigenvector (Eig below): the solver's own order, signs and *)
(* last bits are not reproduced.                                           *)
(* helpers.nearest_neighbours is not in the repository and is modelled by  *)
(* what the specification says of it (NearestNeighbours below).            *)
(*                                                                         *)
(* Indices.  Python indexes from 0; the sequences of the model index from  *)
(* 1, so element i of the code is element i + 1 of the model.              *)
(***************************************************************************)
EXTENDS Integers, Sequences, FiniteSets, TLC

VARIABLES
    pc,          \* "ready": the caller holds the arguments; then "returned" or "raised"
    fn,          \* the function the caller calls
    args,        \* the caller's arguments: a record; mutable buffers are updated in place
    locals,      \* the callee's local variables at the end of the call
    ret,         \* the value handed back to the caller: [type, value]
    err,         \* the exception that left the call, "" when none
    args0        \* history: the arguments as the caller passed them

vars == <<pc, fn, args, locals, ret, err, args0>>

\* A Python value with its type; None before the call returns.
None == [type |-> "NoneType", value |-> <<>>]
Value(type, v) == [type |-> type, value |-> v]

Range(s) == {s[i] : i \in DOMAIN s}

\* The sequences of length n over S, and n copies of x, as tuples.
RECURSIVE Tuples(_, _)
Tuples(S, n) == IF n = 0 THEN {<<>>} ELSE {<<x>> \o t : x \in S, t \in Tuples(S, n - 1)}

RECURSIVE Repeat(_, _)
Repeat(x, n) == IF n = 0 THEN <<>> ELSE <<x>> \o Repeat(x, n - 1)

\* Component c of every element of s from element i on.
RECURSIVE Components(_, _, _)
Components(s, c, i) == IF i > Len(s) THEN <<>> ELSE <<s[i][c]>> \o Components(s, c, i + 1)

----------------------------------------------------------------------------
(* Natural numbers of any size, for the significands of the floats: the    *)
(* limbs of a number in base 2^14, the least significant first, with no    *)
(* zero limb at the top; <<>> is 0.                                        *)
(*                                                                         *)
(* TLC evaluates the argument of an operator anew at every use in the      *)
(* operator's body.  An operator that uses an argument more than once      *)
(* binds it first (x \in {a}), so that it is evaluated once.               *)

Base == 2^14

Min(a, b) == IF a < b THEN a ELSE b

Max(a, b) == IF a < b THEN b ELSE a

Limb(a, i) == IF i <= Len(a) THEN a[i] ELSE 0

RECURSIVE TopLimb(_, _)
TopLimb(a, i) == IF i = 0 THEN 0 ELSE IF a[i] # 0 THEN i ELSE TopLimb(a, i - 1)

BTrim(a) == CHOOSE r \in {SubSeq(x, 1, TopLimb(x, Len(x))) : x \in {a}} : TRUE

RECURSIVE BFromInt(_)
BFromInt(n) == IF n = 0 THEN <<>> ELSE <<n % Base>> \o BFromInt(n \div Base)

RECURSIVE BToIntFrom(_, _)
BToIntFrom(a, i) == IF i > Len(a) THEN 0 ELSE a[i] + Base * BToIntFrom(a, i + 1)

RECURSIVE IntBitLen(_)
IntBitLen(n) == IF n = 0 THEN 0 ELSE 1 + IntBitLen(n \div 2)

\* The number of bits of a.
BitLen(a) == IF a = <<>> THEN 0 ELSE 14 * (Len(a) - 1) + IntBitLen(a[Len(a)])

RECURSIVE BAddFrom(_, _, _, _)
BAddFrom(a, b, i, carry) ==
    IF i > Len(a) /\ i > Len(b) THEN (IF carry = 0 THEN <<>> ELSE <<carry>>)
    ELSE <<(Limb(a, i) + Limb(b, i) + carry) % Base>>
         \o BAddFrom(a, b, i + 1, (Limb(a, i) + Limb(b, i) + carry) \div Base)

BAdd(a, b) == CHOOSE r \in {BAddFrom(x, y, 1, 0) : x \in {a}, y \in {b}} : TRUE

\* a - b for a >= b.
RECURSIVE BSubFrom(_, _, _, _)
BSubFrom(a, b, i, borrow) ==
    IF i > Len(a) THEN <<>>
    ELSE <<(a[i] + Base - Limb(b, i) - borrow) % Base>>
         \o BSubFrom(a, b, i + 1, 1 - ((a[i] + Base - Limb(b, i) - borrow) \div Base))

BSub(a, b) == CHOOSE r \in {BTrim(BSubFrom(x, y, 1, 0)) : x \in {a}, y \in {b}} : TRUE

RECURSIVE BLessAt(_, _, _)
BLessAt(a, b, i) ==
    IF i = 0 THEN FALSE ELSE IF a[i] # b[i] THEN a[i] < b[i] ELSE BLessAt(a, b, i - 1)

BLess(a, b) ==
    CHOOSE r \in {IF Len(x) # Len(y) THEN Len(x) < Len(y) ELSE BLessAt(x, y, Len(x)) :
                  x \in {a}, y \in {b}} : TRUE

\* a * m for a limb m.
RECURSIVE BMulSmallFrom(_, _, _, _)
BMulSmallFrom(a, m, i, carry) ==
    IF i > Len(a) THEN (IF carry = 0 THEN <<>> ELSE <<carry>>)
    ELSE <<(a[i] * m + carry) % Base>>
         \o BMulSmallFrom(a, m, i + 1, (a[i] * m + carry) \div Base)

RECURSIVE BMulFrom(_, _, _)
BMulFrom(a, b, j) ==
    IF j > Len(b) THEN <<>>
    ELSE BAdd(BMulSmallFrom(a, b[j], 1, 0), <<0>> \o BMulFrom(a, b, j + 1))

BMul(a, b) == CHOOSE r \in {BTrim(BMulFrom(x, y, 1)) : x \in {a}, y \in {b}} : TRUE

\* a * 2^k.
BShiftLeft(a, k) ==
    CHOOSE r \in {IF x = <<>> THEN <<>>
                  ELSE Repeat(0, k \div 14) \o BMulSmallFrom(x, 2^(k % 14), 1, 0) : x \in {a}} : TRUE

\* The limbs of a from limb i on, divided by p = 2^r, r < 14.
RECURSIVE ShiftLimbs(_, _, _)
ShiftLimbs(a, i, p) ==
    IF i > Len(a) THEN <<>>
    ELSE <<(a[i] \div p) + (Limb(a, i + 1) % p) * (Base \div p)>> \o ShiftLimbs(a, i + 1, p)

\* a \div 2^k.
BShiftRight(a, k) ==
    CHOOSE r \in {BTrim(ShiftLimbs(x, k \div 14 + 1, 2^(k % 14))) : x \in {a}} : TRUE

\* Whether the k lowest bits of a are all 0.
BLowBitsZero(a, k) ==
    CHOOSE r \in {/\ \A i \in 1..Min(k \div 14, Len(x)) : x[i] = 0
                  /\ Limb(x, k \div 14 + 1) % 2^(k % 14) = 0 : x \in {a}} : TRUE

----------------------------------------------------------------------------
(* IEEE 754 binary64, round to nearest even: the float of Python and the   *)
(* float64 of numpy.  A finite float is sign * man * 2^exp, man a natural  *)
(* number of at most 53 bits: of exactly 53 bits (a normal number) unless  *)
(* exp = -1074 (a subnormal number) or man = 0 (a zero, which has a sign). *)

Finite(sign, man, exp) == [kind |-> "finite", sign |-> sign, man |-> man, exp |-> exp]

FZero(sign) == Finite(sign, <<>>, 0)

FInf(sign) == [kind |-> "inf", sign |-> sign, man |-> <<>>, exp |-> 0]

FNaN == [kind |-> "nan", sign |-> 1, man |-> <<>>, exp |-> 0]

FIsNaN(x) == x.kind = "nan"

FIsZero(x) == x.kind = "finite" /\ x.man = <<>>

\* sign * man * 2^exp for a man of at most 54 bits that needs no rounding:
\* 2^53 is renormalized, a number of 2^1024 or more is inf.
Pack(sign, man, exp) ==
    CHOOSE r \in {IF m = <<>> THEN FZero(sign)
                  ELSE IF exp + BitLen(m) > 1024 THEN FInf(sign)
                  ELSE IF BitLen(m) = 54 THEN Finite(sign, BShiftRight(m, 1), exp + 1)
                  ELSE Finite(sign, m, exp) : m \in {man}} : TRUE

\* q1 is a quotient with one bit more than wanted; lost says whether
\* nonzero bits were dropped below it.  Round to nearest, ties to even.
RoundHalf(q1, lost) ==
    CHOOSE r \in {IF Limb(x, 1) % 2 = 1 /\ (lost \/ (Limb(x, 1) \div 2) % 2 = 1)
                  THEN BAdd(BShiftRight(x, 1), <<1>>)
                  ELSE BShiftRight(x, 1) : x \in {q1}} : TRUE

\* The float nearest to sign * (man + f) * 2^exp, where 0 < f < 1 if sticky
\* and f = 0 otherwise; a sticky man has at least 55 bits.
Round(sign, man, exp, sticky) ==
    CHOOSE r \in
        {IF m = <<>> THEN FZero(sign)
         ELSE IF Max(BitLen(m) - 53, - 1074 - exp) > 0
         THEN Pack(sign,
                   RoundHalf(BShiftRight(m, Max(BitLen(m) - 53, - 1074 - exp) - 1),
                             sticky \/ ~BLowBitsZero(m, Max(BitLen(m) - 53, - 1074 - exp) - 1)),
                   exp + Max(BitLen(m) - 53, - 1074 - exp))
         ELSE Pack(sign, BShiftLeft(m, Min(53 - BitLen(m), exp + 1074)),
                   exp - Min(53 - BitLen(m), exp + 1074)) : m \in {man}} : TRUE

\* The float of an integer, and of the decimal literal n/d (d > 0): the
\* float nearest to it.
FInt(n) == Round(IF n < 0 THEN -1 ELSE 1, BFromInt(IF n < 0 THEN -n ELSE n), 0, FALSE)

FNeg(x) == [x EXCEPT !.sign = IF x.kind = "nan" THEN 1 ELSE -x.sign]

\* The sum of two nonzero finite floats whose significands u and v are
\* aligned at the exponent exp.
AddAligned(sx, nx, sy, ny, exp) ==
    CHOOSE r \in {IF sx = sy THEN Round(sx, BAdd(u, v), exp, FALSE)
                  ELSE IF u = v THEN FZero(1)
                  ELSE IF BLess(u, v) THEN Round(sy, BSub(v, u), exp, FALSE)
                  ELSE Round(sx, BSub(u, v), exp, FALSE) : u \in {nx}, v \in {ny}} : TRUE

\* x + y.  A term more than 60 binary places below the other cannot change it.
FAdd(a, b) ==
    CHOOSE r \in
        {IF x.kind = "nan" \/ y.kind = "nan" THEN FNaN
         ELSE IF x.kind = "inf" THEN (IF y.kind = "inf" /\ y.sign # x.sign THEN FNaN ELSE x)
         ELSE IF y.kind = "inf" THEN y
         ELSE IF x.man = <<>> /\ y.man = <<>> THEN FZero(IF x.sign = y.sign THEN x.sign ELSE 1)
         ELSE IF x.man = <<>> THEN y
         ELSE IF y.man = <<>> THEN x
         ELSE IF x.exp - y.exp > 60 THEN x
         ELSE IF y.exp - x.exp > 60 THEN y
         ELSE AddAligned(x.sign, BShiftLeft(x.man, x.exp - Min(x.exp, y.exp)),
                         y.sign, BShiftLeft(y.man, y.exp - Min(x.exp, y.exp)),
                         Min(x.exp, y.exp)) : x \in {a}, y \in {b}} : TRUE

\* x * y.
FMul(a, b) ==
    CHOOSE r \in
        {IF x.kind = "nan" \/ y.kind = "nan" THEN FNaN
         ELSE IF x.kind = "inf" \/ y.kind = "inf"
         THEN (IF FIsZero(x) \/ FIsZero(y) THEN FNaN ELSE FInf(x.sign * y.sign))
         ELSE IF x.man = <<>> \/ y.man = <<>> THEN FZero(x.sign * y.sign)
         ELSE Round(x.sign * y.sign, BMul(x.man, y.man), x.exp + y.exp, FALSE) :
         x \in {a}, y \in {b}} : TRUE

\* n bits of the quotient of r and b, r < 2 * b, after the bits acc:
\* <<the bits, the remainder doubled n times>>.
RECURSIVE DivBits(_, _, _, _)
DivBits(r, b, n, acc) ==
    IF n = 0 THEN <<acc, r>>
    ELSE CHOOSE res \in {IF BLess(x, b) THEN DivBits(BShiftLeft(x, 1), b, n - 1, 2 * acc)
                         ELSE DivBits(BShiftLeft(BSub(x, b), 1), b, n - 1, 2 * acc + 1) :
                         x \in {r}} : TRUE

\* n limbs of the quotient of r and b: <<the limbs, the remainder>>.
RECURSIVE DivLimbs(_, _, _)
DivLimbs(r, b, n) ==
    IF n = 0 THEN <<<<>>, r>>
    ELSE CHOOSE res \in {CHOOSE q \in {<<p[1] \o <<d[1]>>, p[2]>> :
                                       p \in {DivLimbs(d[2], b, n - 1)}} : TRUE :
                         d \in {DivBits(r, b, 14, 0)}} : TRUE

\* The quotient of two nonzero finite floats with the significands nx and ny
\* of 53 bits: 56 bits of nx / ny, which is between 1/2 and 2, then rounded.
DivAligned(sign, nx, ny, exp) ==
    CHOOSE r \in {Round(sign, q[1], exp - 55, q[2] # <<>>) : q \in {DivLimbs(nx, ny, 4)}} : TRUE

\* x / y as numpy divides: a division by zero gives inf or nan.
FDiv(a, b) ==
    CHOOSE r \in
        {IF x.kind = "nan" \/ y.kind = "nan" THEN FNaN
         ELSE IF x.kind = "inf" THEN (IF y.kind = "inf" THEN FNaN ELSE FInf(x.sign * y.sign))
         ELSE IF y.kind = "inf" THEN FZero(x.sign * y.sign)
         ELSE IF y.man = <<>> THEN (IF x.man = <<>> THEN FNaN ELSE FInf(x.sign * y.sign))
         ELSE IF x.man = <<>> THEN FZero(x.sign * y.sign)
         ELSE DivAligned(x.sign * y.sign,
                         BShiftLeft(x.man, 53 - BitLen(x.man)),
                         BShiftLeft(y.man, 53 - BitLen(y.man)),
                         (x.exp - (53 - BitLen(x.man))) - (y.exp - (53 - BitLen(y.man)))) :
         x \in {a}, y \in {b}} : TRUE

Float(n, d) == FDiv(FInt(n), FInt(d))

\* Comparisons; every comparison with a nan is false, and -0.0 = 0.0.
MagLess(x, y) ==
    IF x.kind = "inf" THEN FALSE
    ELSE IF y.kind = "inf" THEN TRUE
    ELSE IF y.man = <<>> THEN FALSE
    ELSE IF x.man = <<>> THEN TRUE
    ELSE IF x.exp + BitLen(x.man) # y.exp + BitLen(y.man)
    THEN x.exp + BitLen(x.man) < y.exp + BitLen(y.man)
    ELSE BLess(x.man, y.man)

FLt(a, b) ==
    CHOOSE r \in
        {IF x.kind = "nan" \/ y.kind = "nan" THEN FALSE
         ELSE IF FIsZero(x) /\ FIsZero(y) THEN FALSE
         ELSE IF x.sign # y.sign THEN x.sign < y.sign
         ELSE IF x.sign = 1 THEN MagLess(x, y) ELSE MagLess(y, x) : x \in {a}, y \in {b}} : TRUE

FGt(a, b) == FLt(b, a)

FEq(a, b) ==
    CHOOSE r \in {/\ x.kind # "nan"
                  /\ y.kind # "nan"
                  /\ (FIsZero(x) /\ FIsZero(y)) \/ x = y : x \in {a}, y \in {b}} : TRUE

\* The bits 2j and 2j + 1 of a.
BitPair(a, j) == (Limb(a, (2 * j) \div 14 + 1) \div 2^((2 * j) % 14)) % 4

\* The square root of a by pairs of bits: n pairs from pair j down, s being
\* the root of the pairs above and rem what they left.  <<the root, the
\* remainder>>.
RECURSIVE SqrtBits(_, _, _, _, _)
SqrtStep(a, j, n, s, r2, trial) ==
    CHOOSE res \in {IF BLess(u, t) THEN SqrtBits(a, j - 1, n - 1, BShiftLeft(s, 1), u)
                    ELSE SqrtBits(a, j - 1, n - 1, BAdd(BShiftLeft(s, 1), <<1>>), BSub(u, t)) :
                    u \in {r2}, t \in {trial}} : TRUE

SqrtBits(a, j, n, s, rem) ==
    IF n = 0 THEN <<s, rem>>
    ELSE CHOOSE res \in {SqrtStep(a, j, n, u, BAdd(BShiftLeft(v, 2), BFromInt(BitPair(a, j))),
                                  BAdd(BShiftLeft(u, 2), <<1>>)) :
                         u \in {s}, v \in {rem}} : TRUE

\* The same, eleven pairs at a time, down to pair 0.
RECURSIVE SqrtFrom(_, _, _)
SqrtFrom(a, j, q) ==
    IF j < 0 THEN q
    ELSE CHOOSE res \in {SqrtFrom(a, j - 11, SqrtBits(a, j, 11, p[1], p[2])) : p \in {q}} : TRUE

\* The root of man * 2^exp for a man of 109 or 110 bits and an even exp.
SqrtAligned(man, exp) ==
    CHOOSE r \in {Round(1, q[1], exp \div 2, q[2] # <<>>) : q \in {SqrtFrom(man, 54, <<<<>>, <<>>>>)}} : TRUE

\* np.sqrt: nan for a negative argument.
FSqrt(a) ==
    CHOOSE r \in
        {IF x.kind = "nan" THEN FNaN
         ELSE IF x.kind = "finite" /\ x.man = <<>> THEN x
         ELSE IF x.sign = -1 THEN FNaN
         ELSE IF x.kind = "inf" THEN x
         ELSE SqrtAligned(BShiftLeft(x.man, 109 - BitLen(x.man) + ((x.exp + BitLen(x.man) + 1) % 2)),
                          x.exp - (109 - BitLen(x.man) + ((x.exp + BitLen(x.man) + 1) % 2))) :
         x \in {a}} : TRUE

\* The whole number floor(x) of a finite float x, |x| < 2^30.
FFloor(x) ==
    IF x.man = <<>> THEN 0
    ELSE IF x.exp >= 0 THEN x.sign * BToIntFrom(BShiftLeft(x.man, x.exp), 1)
    ELSE IF x.sign = 1 THEN BToIntFrom(BShiftRight(x.man, - x.exp), 1)
    ELSE - (BToIntFrom(BShiftRight(x.man, - x.exp), 1)
            + (IF BLowBitsZero(x.man, - x.exp) THEN 0 ELSE 1))

\* Fixed-point numbers for np.exp: with p binary places, a natural number a
\* stands for a / 2^p.  floor(ln 2 * 2^168), and the float of 1 / ln 2.
Ln2Fix == <<9842, 3340, 13327, 15787, 1010, 3680, 7739, 10994, 3961, 8007, 8575, 11356>>
InvLn2 == Finite(1, <<766, 5294, 5238, 1477>>, -52)

\* a \div n for a whole number 0 < n < 2^14, from limb i down; rem is what
\* the limbs above left.
RECURSIVE BDivSmallFrom(_, _, _, _)
BDivSmallFrom(a, n, i, rem) ==
    IF i = 0 THEN <<>>
    ELSE BDivSmallFrom(a, n, i - 1, (rem * Base + a[i]) % n) \o <<(rem * Base + a[i]) \div n>>

BDivSmall(a, n) == CHOOSE r \in {BTrim(BDivSmallFrom(x, n, Len(x), 0)) : x \in {a}} : TRUE

\* The magnitude of a nonzero finite float in fixed point, rounded down.
ToFix(x, p) ==
    IF x.exp + p < 0 THEN BShiftRight(x.man, - (x.exp + p))
    ELSE BShiftLeft(x.man, x.exp + p)

\* The series of exp by Horner's rule, 1 + r/1 * (1 + r/2 * (... (1 + r/n))),
\* in fixed point: m steps from the term r/n down, acc being the value of
\* the bracket that follows r/n.
RECURSIVE ExpTerms(_, _, _, _, _)
ExpTerms(r, n, m, acc, p) ==
    IF m = 0 THEN acc
    ELSE CHOOSE res \in {ExpTerms(r, n - 1, m - 1, t, p) :
                         t \in {BAdd(BShiftLeft(<<1>>, p),
                                   BDivSmall(BShiftRight(BMul(r, acc), p), n))}} : TRUE

\* The same, six steps at a time, down to the term r/1.
RECURSIVE ExpSeries(_, _, _, _)
ExpSeries(r, n, acc, p) ==
    IF n = 0 THEN acc
    ELSE CHOOSE res \in {ExpSeries(r, n - 6, t, p) : t \in {ExpTerms(r, n, 6, acc, p)}} : TRUE

\* The float below man * 2^exp (or the number itself), and the float after
\* that one when up; man has more than 53 bits.
RoundDirected(man, exp, up) ==
    CHOOSE r \in {Pack(1, IF up THEN BAdd(BShiftRight(m, s), <<1>>) ELSE BShiftRight(m, s),
                       exp + s) :
                  m \in {man}, s \in {Max(BitLen(man) - 53, - 1074 - exp)}} : TRUE

\* The floats next to 2^k * exp(r), below and above, for a fixed-point r in
\* [0, ln 2] with p places.  The series has 6 * (p \div 21) terms
\* ((ln 2)^24 / 24! < 2^-90, (ln 2)^48 / 48! < 2^-220) and gives exp(r) to
\* within 4096 units of the fixed point; the floats next to both ends of
\* that range are taken: two floats, or three when a float lies in the range.
ExpScaled(r, k, p) ==
    CHOOSE res \in {{RoundDirected(m, k - p, up) :
                        m \in {BSub(v, <<4096>>), BAdd(v, <<4096>>)}, up \in BOOLEAN} :
                    v \in {ExpSeries(r, 6 * (p \div 21), BShiftLeft(<<1>>, p), p)}} : TRUE

\* The floats next to exp(x) for x > 0: x = k * ln 2 + r, where k is
\* floor(x / ln 2) as the floats estimate it, or one less when that is too
\* much.
ExpPositive(x, k, p) ==
    CHOOSE res \in {IF BLess(u, v) THEN ExpScaled(BSub(BAdd(u, ln2), v), k - 1, p)
                    ELSE ExpScaled(BSub(u, v), k, p) :
                    u \in {ToFix(x, p)}, v \in {BMul(BFromInt(k), BShiftRight(Ln2Fix, 168 - p))},
                    ln2 \in {BShiftRight(Ln2Fix, 168 - p)}} : TRUE

\* The floats next to exp(x) for x < 0: x = - k * ln 2 + r, where k is
\* floor(|x| / ln 2) + 1 as the floats estimate it, or one more when that is
\* too little.
ExpNegative(x, k, p) ==
    CHOOSE res \in {IF BLess(v, u) THEN ExpScaled(BSub(BAdd(v, ln2), u), - (k + 1), p)
                    ELSE ExpScaled(BSub(v, u), - k, p) :
                    u \in {ToFix(x, p)}, v \in {BMul(BFromInt(k), BShiftRight(Ln2Fix, 168 - p))},
                    ln2 \in {BShiftRight(Ln2Fix, 168 - p)}} : TRUE

\* The floats next to exp(x), x finite and not 0, worked out with p places.
ExpBrackets(x, p) ==
    IF x.sign = 1 THEN ExpPositive(x, FFloor(FMul(x, InvLn2)), p)
    ELSE ExpNegative(x, FFloor(FMul([x EXCEPT !.sign = 1], InvLn2)) + 1, p)

\* np.exp: the set of floats it may return for a.  e^x is no float unless
\* x is 0, and the library does not say which of the two floats next to it
\* it returns: its error is below one unit in the last place, and the result
\* is the nearest float on most arguments and the other one on some, by the
\* build.  It is 1.0 at 0, inf above 709.78 and 0.0 below -745.13.  Below
\* 2^-53 in magnitude, e^x lies between 1.0 and the float next to it on the
\* side of x.  Elsewhere 84 places tell the two floats, or 168 places where
\* e^x is too close to a float for 84.
FExp(a) ==
    CHOOSE r \in
        {IF x.kind = "nan" THEN {FNaN}
         ELSE IF x.kind = "inf" THEN {IF x.sign = 1 THEN x ELSE FZero(1)}
         ELSE IF x.man = <<>> THEN {FInt(1)}
         ELSE IF FGt(x, FInt(710)) THEN {FInf(1)}
         ELSE IF FLt(x, FInt(-746)) THEN {FZero(1)}
         ELSE IF x.exp + BitLen(x.man) <= -53
         THEN {FInt(1), IF x.sign = 1 THEN Finite(1, BAdd(FInt(1).man, <<1>>), -52)
                        ELSE Finite(1, BSub(BShiftLeft(<<1>>, 53), <<1>>), -53)}
         ELSE CHOOSE res \in {IF Cardinality(quick) = 2 THEN quick ELSE ExpBrackets(x, 168) :
                              quick \in {ExpBrackets(x, 84)}} : TRUE : x \in {a}} : TRUE

----------------------------------------------------------------------------
(* Vectors and matrices of floats, as numpy adds and multiplies them.      *)

\* 0.0, 1.0 and 0.5.
F0 == FZero(1)
F1 == FInt(1)
Half == Float(1, 2)

\* abs.
FAbs(x) == [x EXCEPT !.sign = 1]

\* np.square.
FSquare(x) == CHOOSE r \in {FMul(v, v) : v \in {x}} : TRUE

\* The inner product of two vectors of one length, the products added one
\* after the other from column c on; acc is the sum of the columns before c.
RECURSIVE DotFrom(_, _, _, _)
DotFrom(x, y, c, acc) ==
    IF c > Len(x) THEN acc ELSE DotFrom(x, y, c + 1, FAdd(acc, FMul(x[c], y[c])))

\* ndarray.dot of two vectors.
Dot(x, y) == CHOOSE r \in {DotFrom(u, v, 1, F0) : u \in {x}, v \in {y}} : TRUE

\* ndarray.dot of a matrix and a vector, from row i on.
RECURSIVE MatVec(_, _, _)
MatVec(m, v, i) == IF i > Len(m) THEN <<>> ELSE <<Dot(m[i], v)>> \o MatVec(m, v, i + 1)

\* Row `row` of ndarray.dot of a matrix and a matrix, from column c on.
RECURSIVE MatRow(_, _, _)
MatRow(row, f, c) ==
    IF c > Len(f[1]) THEN <<>> ELSE <<Dot(row, Components(f, c, 1))>> \o MatRow(row, f, c + 1)

\* ndarray.dot of two matrices, from row i on.
RECURSIVE MatMat(_, _, _)
MatMat(m, f, i) == IF i > Len(m) THEN <<>> ELSE <<MatRow(m[i], f, 1)>> \o MatMat(m, f, i + 1)

\* The difference of two vectors of one length, from column c on.
RECURSIVE VecSub(_, _, _)
VecSub(x, y, c) == IF c > Len(x) THEN <<>> ELSE <<FAdd(x[c], FNeg(y[c]))>> \o VecSub(x, y, c + 1)

\* np.linalg.norm of a vector: the root of its inner product with itself.
Norm(x) == CHOOSE r \in {FSqrt(DotFrom(v, v, 1, F0)) : v \in {x}} : TRUE

\* ndarray.sum over a row (of fewer than 8 entries): the entries added one
\* after the other from entry i on; acc is the sum of the entries before i.
RECURSIVE SumFrom(_, _, _)
SumFrom(s, i, acc) == IF i > Len(s) THEN acc ELSE SumFrom(s, i + 1, FAdd(acc, s[i]))

Sum(s) == CHOOSE r \in {SumFrom(v, 1, F0) : v \in {s}} : TRUE

\* sum(axis=1, keepdims=True): the sum of every row, from row i on.
RECURSIVE RowSums(_, _)
RowSums(m, i) == IF i > Len(m) THEN <<>> ELSE <<Sum(m[i])>> \o RowSums(m, i + 1)

\* A row divided by a number, from column j on.
RECURSIVE DivideRow(_, _, _)
DivideRow(row, rowSum, j) ==
    IF j > Len(row) THEN <<>> ELSE <<FDiv(row[j], rowSum)>> \o DivideRow(row, rowSum, j + 1)

\* m / rowSums: every row divided by its entry of rowSums, from row i on.
RECURSIVE DivideRows(_, _, _)
DivideRows(m, rowSums, i) ==
    IF i > Len(m) THEN <<>>
    ELSE <<DivideRow(m[i], rowSums[i], 1)>> \o DivideRows(m, rowSums, i + 1)

----------------------------------------------------------------------------
(* wknn_affinity (core.py 29-75).                                          *)
(*                                                                         *)
(* helpers.nearest_neighbours(features1, features2, k) is not in the       *)
(* repository.  By the specification it hands back, for every row of       *)
(* features1, k rows of features2 that are nearest to it, as indices, and   *)
(* their Euclidean distances.  The model lists them nearest first and      *)
(* takes any of the rows that are equally near.  What it does for k above  *)
(* the number of rows of features2 is not said: the calls of the model     *)
(* have 1 <= k <= numElements2.                                            *)

MaxSource == 2     \* numElements1 is at most this
MaxTarget == 3     \* numElements2 is at most this

\* 61-62 and 65-66.
DistanceFloor == Float(1, 1000)
AffinityFloor == Float(1, 10000)

\* Lines 64-66 without lines 61-62.
affinityElementNoFloor(distance) ==
    CHOOSE r \in {IF FLt(a, AffinityFloor) THEN AffinityFloor ELSE a :
                  a \in {FDiv(F1, FSquare(distance))}} : TRUE

\* Lines 60-66: the clamped affinity of one neighbour distance.
affinityElement(distance) ==
    CHOOSE r \in {IF FLt(a, AffinityFloor) THEN AffinityFloor ELSE a :
                  a \in {FDiv(F1, FSquare(IF FLt(distance, DistanceFloor)
                                          THEN DistanceFloor ELSE distance))}} : TRUE

\* Lines 57-70: the loop over the k neighbours of one source element, from
\* neighbour j on; a later neighbour with the same index overwrites an
\* earlier one.
RECURSIVE ScatterRow(_, _, _, _)
ScatterRow(row, distances, neighbourIndices, j) ==
    IF j > Len(neighbourIndices) THEN row
    ELSE ScatterRow([row EXCEPT ![neighbourIndices[j]] = affinityElement(distances[j])],
                    distances, neighbourIndices, j + 1)

\* Lines 49 and 55-70: the loop over the source elements, from element i on,
\* each on its row of zeros.
RECURSIVE ScatterRows(_, _, _, _, _)
ScatterRows(numElements1, numElements2, distances, neighbourIndices, i) ==
    IF i > numElements1 THEN <<>>
    ELSE <<ScatterRow(Repeat(F0, numElements2), distances[i], neighbourIndices[i], 1)>>
         \o ScatterRows(numElements1, numElements2, distances, neighbourIndices, i + 1)

\* Lines 47-75, distances and neighbourIndices being what line 51 received.
wknn_affinity(features1, features2, k, distances, neighbourIndices) ==
    CHOOSE r \in {DivideRows(affinity12, RowSums(affinity12, 1), 1) :
                  affinity12 \in {ScatterRows(Len(features1), Len(features2),
                                              distances, neighbourIndices, 1)}} : TRUE

\* The Euclidean distance of two feature rows.
Distance(a, b) == Norm(VecSub(a, b, 1))

\* The distance of a feature row to every row of features2, from row j on.
RECURSIVE DistancesTo(_, _, _)
DistancesTo(feature, features2, j) ==
    IF j > Len(features2) THEN <<>>
    ELSE <<Distance(features2[j], feature)>> \o DistancesTo(feature, features2, j + 1)

\* Sequences of length k over S without a repeated element.
DistinctSeqs(S, k) == {s \in [1..k -> S] : \A a, b \in 1..k : s[a] = s[b] => a = b}

\* The k nearest rows: no row is listed twice, a row is listed before the
\* rows that are farther, and no row left out is nearer than a listed one.
IsNearest(d, s, k) ==
    /\ \A a, b \in 1..k : a < b => ~FGt(d[s[a]], d[s[b]])
    /\ \A j \in 1..Len(d) : (\A a \in 1..k : s[a] # j) => ~FLt(d[j], d[s[k]])

\* What the search may hand back for one feature row: the indices of k
\* nearest rows of features2 and their distances.
NeighboursOf(feature, features2, k) ==
    UNION {{[distances |-> [a \in 1..k |-> d[s[a]]], neighbourIndices |-> s] :
              s \in {t \in DistinctSeqs(1..Len(d), k) : IsNearest(d, t, k)}} :
           d \in {DistancesTo(feature, features2, 1)}}

\* What the search may hand back for the rows of features1 from row i on.
RECURSIVE NearestNeighbours(_, _, _, _)
NearestNeighbours(features1, features2, k, i) ==
    IF i > Len(features1) THEN {<<>>}
    ELSE {<<r>> \o rest : r \in NeighboursOf(features1[i], features2, k),
                          rest \in NearestNeighbours(features1, features2, k, i + 1)}

\* The feature rows of the calls: points on a line.  The rows of features1
\* are distinct points in increasing order, the rows of features2 distinct
\* points in any order.  Among the distances are 0 (below the distance
\* floor), 1 and 3 (whose affinities 1 and 1/9 do not add up to a float
\* that divides them exactly), 1 and 1 from the source row 2 (two rows
\* equally near), and 197 to 200 (whose affinity is below the affinity floor).
SourcePoints == {F0, F1, FInt(2)}
TargetPoints == {F0, F1, FInt(3), FInt(200)}

\* The sequences of n distinct points of S as feature rows of one column:
\* in increasing order, and in any order.
IncreasingRows(S, n) ==
    {[i \in 1..n |-> <<s[i]>>] :
       s \in {t \in DistinctSeqs(S, n) : \A a, b \in 1..n : a < b => FLt(t[a], t[b])}}
DistinctRows(S, n) == {[i \in 1..n |-> <<s[i]>>] : s \in DistinctSeqs(S, n)}

InitWknn ==
    /\ pc = "ready"
    /\ fn = "wknn_affinity"
    /\ \E n1 \in 1..MaxSource, n2 \in 1..MaxTarget :
         \E features1 \in IncreasingRows(SourcePoints, n1),
            features2 \in DistinctRows(TargetPoints, n2), k \in 1..n2 :
             args = [features1 |-> features1, features2 |-> features2, k |-> k]
    /\ locals = <<>>
    /\ ret = None
    /\ err = ""
    /\ args0 = args

CallWknn ==
    /\ pc = "ready"
    /\ fn = "wknn_affinity"
    /\ \E neighbours \in NearestNeighbours(args.features1, args.features2, args.k, 1) :
       \E distances \in {[i \in 1..Len(neighbours) |-> neighbours[i].distances]} :
       \E neighbourIndices \in {[i \in 1..Len(neighbours) |-> neighbours[i].neighbourIndices]} :
         /\ locals' = [distances |-> distances, neighbourIndices |-> neighbourIndices]
         /\ ret' = Value("ndarray", wknn_affinity(args.features1, args.features2, args.k,
                                                  distances, neighbourIndices))
    /\ pc' = "returned"
    /\ UNCHANGED <<fn, args, err, args0>>

SpecWknn == InitWknn /\ [][CallWknn]_vars

\* The entries of row i are not negative, and 0.0 at every column that is no
\* neighbour of the row.
EntriesInRange(i) ==
    \A j \in DOMAIN ret.value[i] :
        /\ ~FIsNaN(ret.value[i][j])
        /\ ~FLt(ret.value[i][j], F0)
        /\ j \notin Range(locals.neighbourIndices[i]) => ret.value[i][j] = F0

\* 2^-52, the distance from 1.0 to the next float.
RowSumTolerance == FSquare(Float(1, 67108864))

----------------------------------------------------------------------------
(* fuse_affinities (core.py 77-98).                                        *)

MaxFused == 2      \* neither dimension of the fused matrix is above this

\* ndarray.transpose of a matrix, from column c on.
RECURSIVE TransposeFrom(_, _)
TransposeFrom(m, c) ==
    IF c > Len(m[1]) THEN <<>> ELSE <<Components(m, c, 1)>> \o TransposeFrom(m, c + 1)

Transpose(m) == TransposeFrom(m, 1)

\* The elementwise sum of two rows of one length, from column c on.
RECURSIVE RowAdd(_, _, _)
RowAdd(x, y, c) == IF c > Len(x) THEN <<>> ELSE <<FAdd(x[c], y[c])>> \o RowAdd(x, y, c + 1)

\* The elementwise sum of two matrices of one shape, from row i on.
RECURSIVE MatAdd(_, _, _)
MatAdd(a, b, i) == IF i > Len(a) THEN <<>> ELSE <<RowAdd(a[i], b[i], 1)>> \o MatAdd(a, b, i + 1)

\* Lines 94-96: the callee's variables when it returns.  The assignments bind
\* the callee's own name affinityFused; the caller's array is not written.
fuse_affinities(affinity12, affinity21, affinityFused) ==
    CHOOSE r \in {CHOOSE q \in {[rowSums |-> rowSums,
                                 affinityFused |-> DivideRows(summed, rowSums, 1)] :
                                rowSums \in {RowSums(summed, 1)}} : TRUE :
                  summed \in {MatAdd(affinity12, Transpose(affinity21), 1)}} : TRUE

\* The rows of the fuser's inputs: weights 0, 1/2 and 1 that sum to 1.
StochasticRows(n) == {r \in Tuples({F0, Half, F1}, n) : FEq(Sum(r), F1)}

ZeroMatrix(n, m) == Repeat(Repeat(F0, m), n)

InitFuse ==
    /\ pc = "ready"
    /\ fn = "fuse_affinities"
    /\ \E n1 \in 1..MaxFused, n2 \in 1..MaxFused :
         \E a12 \in Tuples(StochasticRows(n2), n1), a21 \in Tuples(StochasticRows(n1), n2) :
             args = [affinity12 |-> a12, affinity21 |-> a21,
                     affinityFused |-> ZeroMatrix(n1, n2)]
    /\ locals = <<>>
    /\ ret = None
    /\ err = ""
    /\ args0 = args

CallFuse ==
    /\ pc = "ready"
    /\ fn = "fuse_affinities"
    /\ pc' = "returned"
    /\ locals' = fuse_affinities(args.affinity12, args.affinity21, args.affinityFused)
    /\ ret' = Value("bool", TRUE)
    /\ UNCHANGED <<fn, args, err, args0>>

SpecFuse == InitFuse /\ [][CallFuse]_vars

\* affinity12 + transpose(affinity21) with every row divided by its row sum.
FusedMatrix(a12, a21) ==
    [i \in DOMAIN a12 |-> [j \in DOMAIN a12[i] |->
        FDiv(FAdd(a12[i][j], a21[j][i]),
             Sum([c \in DOMAIN a12[i] |-> FAdd(a12[i][c], a21[c][i])]))]]

\* C2: after fuse_affinities the caller holds the fused matrix, as the return
\* value or in the output argument, and the two input matrices are unchanged.
C2_CallerHoldsFused ==
    [][(pc = "ready" /\ fn = "fuse_affinities") =>
          /\ \/ /\ ret'.type = "ndarray"
                /\ ret'.value = FusedMatrix(args.affinity12, args.affinity21)
             \/ args'.affinityFused = FusedMatrix(args.affinity12, args.affinity21)
          /\ args'.affinity12 = args.affinity12
          /\ args'.affinity21 = args.affinity21]_vars

\* C6: the matrix that fuse_affinities computes for (A, B) is the transpose
\* of the matrix it computes for (B, A).
C6_FusionSymmetry ==
    (pc = "returned" /\ fn = "fuse_affinities") =>
        locals.affinityFused =
            Transpose(fuse_affinities(args.affinity21, args.affinity12,
                                      Transpose(args.affinityFused)).affinityFused)

----------------------------------------------------------------------------
(* affinity_to_correspondences, in binary64.                               *)

\* Lines 127-130 with >= for >.
RoundFlagInclusive(flag, flagRoundingLimit) ==
    IF FGt(flag, flagRoundingLimit) \/ FEq(flag, flagRoundingLimit) THEN F1 ELSE F0

\* Lines 127-130.
RoundFlag(flag, flagRoundingLimit) ==
    IF FGt(flag, flagRoundingLimit) THEN F1 ELSE F0

\* Lines 126-130: the loop over the blended flags, from element i on.
RECURSIVE RoundFlags(_, _, _)
RoundFlags(correspondingFlags, flagRoundingLimit, i) ==
    IF i > Len(correspondingFlags) THEN <<>>
    ELSE <<RoundFlag(correspondingFlags[i], flagRoundingLimit)>>
         \o RoundFlags(correspondingFlags, flagRoundingLimit, i + 1)

\* Lines 122-132.
affinity_to_correspondences(features2, flags2, affinity, flagRoundingLimit) ==
    CHOOSE r \in {[correspondingFeatures |-> MatMat(affinity, features2, 1),
                   correspondingFlags |-> RoundFlags(blended, flagRoundingLimit, 1)] :
                  blended \in {MatVec(affinity, flags2, 1)}} : TRUE

\* The rows of the affinity matrix: the rows below, filled up with zeros to
\* the number of target elements.  Over the flags 1, 0 the blend of 0.9 and 0.1 is the
\* default limit itself; over the flags 1, 1 the blend of 0.1 and 0.2 is the
\* float above 0.3, and over 1, 1, 0 the blend of 0.34, 0.56 and 0.1 is the
\* float above 0.9.
CorrRows(n) ==
    {r \o Repeat(F0, n - Len(r)) :
     r \in {b \in {<<F1>>,
                    <<Float(9, 10), Float(1, 10)>>,
                    <<Float(1, 10), Float(9, 10)>>,
                    <<Float(1, 10), Float(2, 10)>>,
                    <<Float(34, 100), Float(56, 100), Float(1, 10)>>} : Len(b) <= n}}

\* features2 for n target elements, from element j on: the feature vector of
\* element j is (j - 1, j mod 2).
RECURSIVE TargetFeatures(_, _)
TargetFeatures(n, j) ==
    IF j > n THEN <<>> ELSE <<<<FInt(j - 1), FInt(j % 2)>>>> \o TargetFeatures(n, j + 1)

InitCorr ==
    /\ pc = "ready"
    /\ fn = "affinity_to_correspondences"
    /\ \E n1 \in 1..MaxSource, n2 \in 1..MaxTarget :
         \* binary flags; the default limit of line 100 and another limit
         \E g2 \in Tuples({F0, F1}, n2), a \in Tuples(CorrRows(n2), n1),
            l \in {Float(9, 10), Float(3, 10)} :
             args = [features2 |-> TargetFeatures(n2, 1), flags2 |-> g2, affinity |-> a,
                     flagRoundingLimit |-> l]
    /\ locals = <<>>
    /\ ret = None
    /\ err = ""
    /\ args0 = args

CallCorr ==
    /\ pc = "ready"
    /\ fn = "affinity_to_correspondences"
    /\ pc' = "returned"
    /\ ret' = Value("tuple",
                    affinity_to_correspondences(args.features2, args.flags2,
                                                args.affinity, args.flagRoundingLimit))
    /\ UNCHANGED <<fn, args, locals, err, args0>>

SpecCorr == InitCorr /\ [][CallCorr]_vars

\* The affinity-weighted sum of the target flags for source element i, as
\* line 123 computes it.
BlendedFlag(i) == Dot(args.affinity[i], args.flags2)

\* C5: a call of affinity_to_correspondences returns, for every source
\* element, the flag 1.0 when the affinity-weighted sum of the target flags
\* is strictly greater than flagRoundingLimit and 0.0 otherwise (so 0.0 when
\* the sum is on the limit), and leaves features2, flags2 and affinity
\* unchanged.
C5_FlagBinarization ==
    [][(pc = "ready" /\ fn = "affinity_to_correspondences") =>
          /\ \A i \in DOMAIN args.affinity :
               /\ FGt(BlendedFlag(i), args.flagRoundingLimit)
                    => ret'.value.correspondingFlags[i] = F1
               /\ ~FGt(BlendedFlag(i), args.flagRoundingLimit)
                    => ret'.value.correspondingFlags[i] = F0
               /\ ret'.value.correspondingFlags[i] \in {F0, F1}
          /\ args' = args]_vars

\* A returned call with the default limit where one blended flag is the
\* float 0.9 itself and is rounded to 0.0, and another is above 0.9 and
\* rounded to 1.0.
C5_Witness ==
    /\ pc = "returned"
    /\ fn = "affinity_to_correspondences"
    /\ args.flagRoundingLimit = Float(9, 10)
    /\ \E i, i2 \in DOMAIN args.affinity :
         /\ FEq(BlendedFlag(i), Float(9, 10))
         /\ ret.value.correspondingFlags[i] = F0
         /\ FGt(BlendedFlag(i2), Float(9, 10))
         /\ ret.value.correspondingFlags[i2] = F1

----------------------------------------------------------------------------
(* inlier_detection, in binary64.                                          *)

\* Line 174: np.sqrt(2 * 3.14159).
SqrtTwoPi == FSqrt(FMul(FInt(2), Float(314159, 100000)))

\* Lines 158-160: the flag pass over correspondingFlags, from flag i on; it
\* writes the caller's buffer.
RECURSIVE FlagPass(_, _, _)
FlagPass(correspondingFlags, inlierProbability, i) ==
    IF i > Len(correspondingFlags) THEN inlierProbability
    ELSE FlagPass(correspondingFlags,
                  IF FLt(correspondingFlags[i], Half)
                  THEN [inlierProbability EXCEPT ![i] = F0] ELSE inlierProbability,
                  i + 1)

\* Lines 169 and 177: the residual distance of every element, from i on.
RECURSIVE Distances(_, _, _)
Distances(features, correspondingFeatures, i) ==
    IF i > Len(features) THEN <<>>
    ELSE <<Norm(VecSub(correspondingFeatures[i], features[i], 1))>>
         \o Distances(features, correspondingFeatures, i + 1)

\* Lines 168-170: the loop that adds up sigmaNumerator, from element i on;
\* acc is the sum before element i.
RECURSIVE SigmaNumerator(_, _, _, _)
SigmaNumerator(inlierProbability, distance, i, acc) ==
    IF i > Len(distance) THEN acc
    ELSE SigmaNumerator(inlierProbability, distance, i + 1,
                        FAdd(acc, FMul(FMul(inlierProbability[i], distance[i]), distance[i])))

\* Lines 168-171: the loop that adds up sigmaDenominator, from element i on.
RECURSIVE SigmaDenominator(_, _, _, _)
SigmaDenominator(inlierProbability, numElements, i, acc) ==
    IF i > numElements THEN acc
    ELSE SigmaDenominator(inlierProbability, numElements, i + 1, FAdd(acc, inlierProbability[i]))

\* Line 173, for sums that numpy divides (there is an element).
Sigma(sigmaNumerator, sigmaDenominator) == FSqrt(FDiv(sigmaNumerator, sigmaDenominator))

\* Line 174: the argument of np.exp, -0.5 * kappaa * kappaa.
LambdaExponent(kappaa) == FMul(FMul(FNeg(Half), kappaa), kappaa)

\* Line 178: the argument of np.exp for every element, from i on.
RECURSIVE GaussianExponents(_, _, _)
GaussianExponents(distance, sigmaa, i) ==
    IF i > Len(distance) THEN <<>>
    ELSE <<FMul(FNeg(Half), FSquare(FDiv(distance[i], sigmaa)))>>
         \o GaussianExponents(distance, sigmaa, i + 1)

\* What np.exp may return for the first i of the arguments, one after the
\* other: of the floats it may return for an argument it returns the same
\* one whenever it is called with that argument.
RECURSIVE ExpResults(_, _)
ExpResults(arguments, i) ==
    IF i = 0 THEN {<<>>}
    ELSE {Append(p[1], p[2]) :
            p \in {q \in ExpResults(arguments, i - 1) \X FExp(arguments[i]) :
                     \A j \in 1..(i - 1) : arguments[j] = arguments[i] => q[1][j] = q[2]}}

\* Line 174, expValue being what np.exp returned.
Lambda(sigmaa, expValue) == FMul(FDiv(F1, FMul(SqrtTwoPi, sigmaa)), expValue)

\* Line 178: the Gaussian density of a residual distance, expValue being
\* what np.exp returned.
Gaussian(sigmaa, expValue) == FMul(FDiv(F1, FMul(SqrtTwoPi, sigmaa)), expValue)

\* Line 179.
Responsibility(probability, lambdaa) ==
    CHOOSE r \in {FDiv(p, FAdd(p, l)) : p \in {probability}, l \in {lambdaa}} : TRUE

\* Lines 176-179: the distance pass writes the buffer at every element,
\* whatever the flag pass left there; from element i on.  expValues holds
\* what np.exp returned for every element.
RECURSIVE DistancePass(_, _, _, _, _)
DistancePass(inlierProbability, sigmaa, lambdaa, expValues, i) ==
    IF i > Len(expValues) THEN inlierProbability
    ELSE DistancePass([inlierProbability EXCEPT
                          ![i] = Responsibility(Gaussian(sigmaa, expValues[i]), lambdaa)],
                      sigmaa, lambdaa, expValues, i + 1)

\* Lines 183-187: the dot product of the two normals (columns 3..5 of the code).
NormalDot(feature, correspondingFeature) ==
    Dot(SubSeq(feature, 4, 6), SubSeq(correspondingFeature, 4, 6))

\* Line 189 without the rescaling.
NormalWeightRaw(dotProduct) == dotProduct

\* Line 189: the dot product rescaled from [-1, 1] to [0, 1].
NormalWeight(dotProduct) == FAdd(FDiv(dotProduct, FInt(2)), Half)

\* Lines 182-190: the normal pass multiplies the buffer at every element;
\* from element i on.
RECURSIVE NormalPass(_, _, _, _)
NormalPass(inlierProbability, features, correspondingFeatures, i) ==
    IF i > Len(features) THEN inlierProbability
    ELSE NormalPass([inlierProbability EXCEPT
                        ![i] = FMul(inlierProbability[i],
                                    NormalWeight(NormalDot(features[i],
                                                           correspondingFeatures[i])))],
                    features, correspondingFeatures, i + 1)

\* The feature of every floating element: at the origin, normal along z.
Feature == <<F0, F0, F0, F0, F0, F1>>

\* A corresponding feature at x on the first axis with the normal (0, 0, z).
CorrespondingFeature(x, z) == <<x, F0, F0, F0, F0, z>>

\* The elements of a call, each as <<corresponding feature, corresponding
\* flag, what the caller left in the probability buffer>>:
\* a unit away (flagged in; flagged out),
\* the opposite normal (distance 2, dot -1) under a buffer value of 2,
\* a normal that is no unit vector (dot 2) under a buffer value of 0.5,
\* the residuals 0.01 and 0.02, and the feature itself (distance 0).
Elements ==
    {<<CorrespondingFeature(F1, F1), F1, F1>>,
     <<CorrespondingFeature(F1, F1), F0, F1>>,
     <<CorrespondingFeature(F0, FInt(-1)), F1, FInt(2)>>,
     <<CorrespondingFeature(F0, FInt(2)), F1, Half>>,
     <<CorrespondingFeature(Float(1, 100), F1), F1, F1>>,
     <<CorrespondingFeature(Float(2, 100), F1), F1, F1>>,
     <<CorrespondingFeature(F0, F1), F1, F1>>}

InitInlier ==
    /\ pc = "ready"
    /\ fn = "inlier_detection"
    /\ \E n \in 0..MaxSource :
         \E e \in Tuples(Elements, n) :
             args = [features |-> Repeat(Feature, n),
                     correspondingFeatures |-> Components(e, 1, 1),
                     correspondingFlags |-> Components(e, 2, 1),
                     inlierProbability |-> Components(e, 3, 1),
                     kappaa |-> FInt(3)]     \* the default of line 134
    /\ locals = <<>>
    /\ ret = None
    /\ err = ""
    /\ args0 = args

\* Lines 156-190, statement by statement; each \E binds the value a statement
\* computes, and the one over ExpResults takes what the build's np.exp
\* returns at lines 174 and 178.  The arrays of a call have one length,
\* numElements.  Without an element the sums of line 173 are still the Python
\* floats 0.0 of lines 166-167, and their division raises ZeroDivisionError;
\* with an element they are numpy floats, whose division by zero only warns.
\* The buffer is the caller's array and is written in place;
\* locals.afterDistancePass keeps what it held after the loop of lines
\* 176-179.
inlier_detection ==
    /\ pc = "ready"
    /\ fn = "inlier_detection"
    /\ \E flagged \in {FlagPass(args.correspondingFlags, args.inlierProbability, 1)} :
         IF Len(args.features) = 0
         THEN /\ pc' = "raised"
              /\ err' = "ZeroDivisionError"
              /\ args' = [args EXCEPT !.inlierProbability = flagged]
              /\ locals' = [sigmaNumerator |-> F0, sigmaDenominator |-> F0,
                            sigmaa |-> F0, lambdaa |-> F0]
         ELSE \E distance \in {Distances(args.features, args.correspondingFeatures, 1)} :
              \E sigmaNumerator \in {SigmaNumerator(flagged, distance, 1, F0)} :
              \E sigmaDenominator \in {SigmaDenominator(flagged, Len(args.features), 1, F0)} :
              \E sigmaa \in {Sigma(sigmaNumerator, sigmaDenominator)} :
              \E exponents \in {<<LambdaExponent(args.kappaa)>>
                                   \o GaussianExponents(distance, sigmaa, 1)} :
              \E expValues \in ExpResults(exponents, Len(exponents)) :
              \E lambdaa \in {Lambda(sigmaa, expValues[1])} :
              \E afterDistancePass \in
                     {DistancePass(flagged, sigmaa, lambdaa, Tail(expValues), 1)} :
                /\ pc' = "returned"
                /\ args' = [args EXCEPT !.inlierProbability =
                                            NormalPass(afterDistancePass, args.features,
                                                       args.correspondingFeatures, 1)]
                /\ locals' = [sigmaNumerator |-> sigmaNumerator,
                              sigmaDenominator |-> sigmaDenominator,
                              sigmaa |-> sigmaa, lambdaa |-> lambdaa,
                              afterDistancePass |-> afterDistancePass]
                /\ UNCHANGED err
    /\ UNCHANGED <<fn, ret, args0>>

SpecInlier == InitInlier /\ [][inlier_detection]_vars

\* The sum of the buffer after the flag pass was positive and sigma came out
\* positive (and finite): the distance pass is defined.
SigmaDefined ==
    /\ locals.sigmaDenominator.kind = "finite"
    /\ FGt(locals.sigmaDenominator, F0)
    /\ locals.sigmaa.kind = "finite"
    /\ FGt(locals.sigmaa, F0)

\* C1: when inlier_detection finishes, every element whose correspondingFlag
\* is below 0.5 has inlierProbability 0.0, whatever its distance and its
\* normal (some other element keeping sigma defined).
C1_FlagGatePrecedence ==
    (pc = "returned" /\ fn = "inlier_detection" /\ SigmaDefined) =>
        \A i \in DOMAIN args.correspondingFlags :
            FLt(args.correspondingFlags[i], Half) => FIsZero(args.inlierProbability[i])

\* C7: when the buffer sums to 0 after the flag pass, inlier_detection either
\* fails with DegenerateState or leaves every probability at 0; no
\* probability is left undefined (NaN).
C7_DegenerateGuard ==
    (pc # "ready" /\ fn = "inlier_detection"
       /\ FIsZero(SigmaDenominator(FlagPass(args0.correspondingFlags,
                                            args0.inlierProbability, 1),
                                   Len(args0.features), 1, F0))) =>
        /\ \/ (pc = "raised" /\ err = "DegenerateState")
           \/ (pc = "returned" /\ \A i \in DOMAIN args.inlierProbability :
                                      FIsZero(args.inlierProbability[i]))
        /\ \A i \in DOMAIN args.inlierProbability : ~FIsNaN(args.inlierProbability[i])

\* Every normal dot product of the call lies in [-1, 1].
DotsInRange ==
    \A i \in DOMAIN args.features :
        /\ ~FIsNaN(NormalDot(args.features[i], args.correspondingFeatures[i]))
        /\ ~FLt(NormalDot(args.features[i], args.correspondingFeatures[i]), FInt(-1))
        /\ ~FGt(NormalDot(args.features[i], args.correspondingFeatures[i]), F1)

\* The value v lies in [0, 1].
InUnitRange(v) == ~FIsNaN(v) /\ ~FLt(v, F0) /\ ~FGt(v, F1)

----------------------------------------------------------------------------
(* rigid_transformation (core.py 192-295).                                 *)
(*                                                                         *)
(* The body reads numFloatingVertices, floatingPositions, floatingWeights, *)
(* correspondingPositions and adjustScale, none of which is a parameter or *)
(* a local: Python resolves them in the module's globals.  Nothing in the  *)
(* module binds them: called on the module as it is, the body raises       *)
(* NameError at its first read of one (line 215).  A caller may bind them  *)
(* in the module beforehand; args.globalsBound says whether it has, and    *)
(* args then keeps their values.                                           *)
(* floatingPositions is 3 x N in the code; the model keeps the sequence of *)
(* its N columns.  The loops run over range(numFloatingVertices), whatever *)
(* N is.  The function has no return statement: it returns None.           *)

\* The largest number of columns of floatingPositions in a call.
MaxVertices == 3

\* TLC evaluates the argument of an operator anew at every use in the
\* operator's body.  The operators below bind their arguments first (x \in {a}),
\* so that each is evaluated once, as a statement of the code evaluates it.

\* 3-vectors and 3 x 3 matrices of floats.
VAdd(a, b) ==
    CHOOSE v \in {<<FAdd(x[1], y[1]), FAdd(x[2], y[2]), FAdd(x[3], y[3])>> :
                  x \in {a}, y \in {b}} : TRUE
VSub(a, b) == VecSub(a, b, 1)
VScale(s, a) ==
    CHOOSE v \in {<<FMul(t, x[1]), FMul(t, x[2]), FMul(t, x[3])>> : t \in {s}, x \in {a}} : TRUE
VDiv(a, s) ==
    CHOOSE v \in {<<FDiv(x[1], t), FDiv(x[2], t), FDiv(x[3], t)>> : x \in {a}, t \in {s}} : TRUE
Outer(a, b) ==
    CHOOSE m \in {<<VScale(x[1], y), VScale(x[2], y), VScale(x[3], y)>> :
                  x \in {a}, y \in {b}} : TRUE
M3Add(a, b) ==
    CHOOSE m \in {<<VAdd(x[1], y[1]), VAdd(x[2], y[2]), VAdd(x[3], y[3])>> :
                  x \in {a}, y \in {b}} : TRUE
M3Sub(a, b) ==
    CHOOSE m \in {<<VSub(x[1], y[1]), VSub(x[2], y[2]), VSub(x[3], y[3])>> :
                  x \in {a}, y \in {b}} : TRUE
M3Scale(s, a) ==
    CHOOSE m \in {<<VScale(t, x[1]), VScale(t, x[2]), VScale(t, x[3])>> :
                  t \in {s}, x \in {a}} : TRUE
M3Transpose(a) ==
    CHOOSE m \in {<<Components(x, 1, 1), Components(x, 2, 1), Components(x, 3, 1)>> :
                  x \in {a}} : TRUE
ZeroVector == <<F0, F0, F0>>
Identity3 == << <<F1, F0, F0>>, <<F0, F1, F0>>, <<F0, F0, F1>> >>
Identity4 ==
    << <<F1, F0, F0, F0>>, <<F0, F1, F0, F0>>, <<F0, F0, F1, F0>>, <<F0, F0, F0, F1>> >>

\* 218: the loop that adds up weightSum, from vertex i on; acc is the sum
\* before vertex i.
RECURSIVE WeightSum(_, _, _, _)
WeightSum(floatingWeights, numFloatingVertices, i, acc) ==
    IF i > numFloatingVertices THEN acc
    ELSE WeightSum(floatingWeights, numFloatingVertices, i + 1, FAdd(acc, floatingWeights[i]))

\* 216-217: the loop that adds up a centroid, from vertex i on.
RECURSIVE WeightedSum(_, _, _, _, _)
WeightedSum(floatingWeights, positions, numFloatingVertices, i, acc) ==
    IF i > numFloatingVertices THEN acc
    ELSE WeightedSum(floatingWeights, positions, numFloatingVertices, i + 1,
                     VAdd(acc, VScale(floatingWeights[i], positions[i])))

\* 224-226: the loop that adds up the cross variance matrix, from vertex i on.
RECURSIVE WeightedOuterSum(_, _, _, _, _, _)
WeightedOuterSum(floatingWeights, floatingPositions, correspondingPositions, numFloatingVertices, i, acc) ==
    IF i > numFloatingVertices THEN acc
    ELSE WeightedOuterSum(floatingWeights, floatingPositions, correspondingPositions,
                          numFloatingVertices, i + 1,
                          M3Add(acc, M3Scale(floatingWeights[i],
                                             Outer(floatingPositions[i],
                                                   correspondingPositions[i]))))

\* 223-228: the cross variance matrix.
CrossVariance(floatingWeights, floatingPositions, correspondingPositions, numFloatingVertices, weightSum, floatingCentroid, correspondingCentroid) ==
    CHOOSE m \in {M3Sub(<<VDiv(x[1], weightSum), VDiv(x[2], weightSum), VDiv(x[3], weightSum)>>,
                        Outer(floatingCentroid, correspondingCentroid)) :
                  x \in {WeightedOuterSum(floatingWeights, floatingPositions,
                                          correspondingPositions, numFloatingVertices, 1,
                                          <<ZeroVector, ZeroVector, ZeroVector>>)}} : TRUE

\* 230-242: Q from the cross variance matrix.
QMatrix(crossVarianceMatrix) ==
    LET antiSymmetricMatrix == M3Sub(crossVarianceMatrix, M3Transpose(crossVarianceMatrix))
        delta == <<antiSymmetricMatrix[2][3], antiSymmetricMatrix[3][1], antiSymmetricMatrix[1][2]>>
        trace == FAdd(FAdd(crossVarianceMatrix[1][1], crossVarianceMatrix[2][2]),
                      crossVarianceMatrix[3][3])
        block == M3Sub(M3Add(crossVarianceMatrix, M3Transpose(crossVarianceMatrix)),
                       M3Scale(trace, Identity3))
    IN  << <<trace, delta[1], delta[2], delta[3]>>,
           <<delta[1]>> \o block[1],
           <<delta[2]>> \o block[2],
           <<delta[3]>> \o block[3] >>

\* Q holds a nan or an inf.
NotFinite(Q) == \E i, j \in 1..4 : Q[i][j].kind # "finite"


\* Q is diagonal.
IsDiagonal(Q) == \A i, j \in 1..4 : i # j => FIsZero(Q[i][j])

\* np.linalg.eig hands the matrix to LAPACK, which is no part of the
\* repository.  Of a diagonal matrix it returns the diagonal, in its order,
\* and the identity.  Of another symmetric matrix the model computes the
\* eigenpairs with Jacobi rotations in floats, which gives every eigenvalue
\* to within a few units in the last place of the largest; the solver's own
\* rounding is not reproduced.  The order in which the solver lists the
\* eigenpairs and the sign it gives each eigenvector are its own: the model
\* takes every order and every sign.

\* The largest number of sweeps over the entries above the diagonal.
SolverSweeps == 12

\* <<t, c, s>>, the tangent, cosine and sine of the rotation for
\* theta = (aqq - app) / (2 apq), of the smaller angle.
RotationOfCotangent(theta) ==
    CHOOSE r \in
        {CHOOSE r1 \in
            {CHOOSE r2 \in {<<t, c, FMul(t, c)>> :
                            c \in {FDiv(F1, FSqrt(FAdd(FSquare(t), F1)))}} : TRUE :
             t \in {IF FLt(theta, F0) THEN FNeg(u) ELSE u}} : TRUE :
         u \in {FDiv(F1, FAdd(FAbs(theta), FSqrt(FAdd(FSquare(theta), F1))))}} : TRUE

\* The rotation in the plane of the axes p and q that makes apq zero; none
\* when apq is so small that it changes neither diagonal entry.
JacobiAngle(app, aqq, apq) ==
    CHOOSE r \in
        {IF /\ FEq(FAdd(FAbs(app), g), FAbs(app))
            /\ FEq(FAdd(FAbs(aqq), g), FAbs(aqq))
         THEN <<F0, F1, F0>>
         ELSE CHOOSE r1 \in {RotationOfCotangent(theta) :
                             theta \in {FDiv(FAdd(aqq, FNeg(app)),
                                             FMul(FInt(2), apq))}} : TRUE :
         g \in {FMul(FInt(100), FAbs(apq))}} : TRUE

\* Entry (i, j) of a matrix M after the rotation r = <<t, c, s>> in the
\* plane of p and q: of the symmetric matrix, rotated on both sides, or of
\* the matrix of the eigenvectors, whose columns p and q are rotated.
RotatedEntry(M, symmetric, p, q, r, i, j) ==
    IF symmetric /\ i = p /\ j = p THEN FAdd(M[p][p], FNeg(FMul(r[1], M[p][q])))
    ELSE IF symmetric /\ i = q /\ j = q THEN FAdd(M[q][q], FMul(r[1], M[p][q]))
    ELSE IF symmetric /\ {i, j} = {p, q} THEN F0
    ELSE IF symmetric /\ i = p THEN FAdd(FMul(r[2], M[p][j]), FNeg(FMul(r[3], M[q][j])))
    ELSE IF symmetric /\ i = q THEN FAdd(FMul(r[3], M[p][j]), FMul(r[2], M[q][j]))
    ELSE IF j = p THEN FAdd(FMul(r[2], M[i][p]), FNeg(FMul(r[3], M[i][q])))
    ELSE IF j = q THEN FAdd(FMul(r[3], M[i][p]), FMul(r[2], M[i][q]))
    ELSE M[i][j]

\* Row i of the rotated matrix from column j on, and its rows from row i on.
RECURSIVE RotatedRow(_, _, _, _, _, _, _)
RotatedRow(M, symmetric, p, q, r, i, j) ==
    IF j > 4 THEN <<>>
    ELSE <<RotatedEntry(M, symmetric, p, q, r, i, j)>>
         \o RotatedRow(M, symmetric, p, q, r, i, j + 1)

RECURSIVE RotatedRows(_, _, _, _, _, _)
RotatedRows(M, symmetric, p, q, r, i) ==
    IF i > 4 THEN <<>>
    ELSE <<RotatedRow(M, symmetric, p, q, r, i, 1)>>
         \o RotatedRows(M, symmetric, p, q, r, i + 1)

\* One rotation: the symmetric matrix A and the eigenvectors V after entry
\* (p, q) of A has been made zero.
Rotate(state, p, q) ==
    CHOOSE rotated \in
        {IF FIsZero(st.A[p][q]) THEN st
         ELSE CHOOSE r1 \in
                {[A |-> RotatedRows(st.A, TRUE, p, q, r, 1),
                  V |-> RotatedRows(st.V, FALSE, p, q, r, 1)] :
                 r \in {JacobiAngle(st.A[p][p], st.A[q][q], st.A[p][q])}} : TRUE :
         st \in {state}} : TRUE

\* Sweeps, each a rotation for every entry above the diagonal, row by row,
\* until the matrix is diagonal; its diagonal then holds the eigenvalues and
\* column i of V the eigenvector of the i-th.
RECURSIVE Jacobi(_, _)
Jacobi(state, sweeps) ==
    CHOOSE final \in
        {IF sweeps = SolverSweeps \/ IsDiagonal(st.A) THEN st
         ELSE Jacobi(Rotate(Rotate(Rotate(Rotate(Rotate(Rotate(st, 1, 2), 1, 3), 1, 4),
                                          2, 3), 2, 4), 3, 4), sweeps + 1) :
         st \in {state}} : TRUE

\* 245: np.linalg.eig on a finite Q (it raises LinAlgError on a Q that holds
\* a nan or an inf): the set of the results it may give, eigenVectors having
\* the eigenvector of eigenValues[i] in its column i.  p is the order of the
\* eigenpairs and n[i] says whether eigenvector i is the opposite of the one
\* computed.
Eig(Q) ==
    IF IsDiagonal(Q)
    THEN {[eigenValues |-> <<Q[1][1], Q[2][2], Q[3][3], Q[4][4]>>, eigenVectors |-> Identity4]}
    ELSE UNION {{[eigenValues |-> <<st.A[p[1]][p[1]], st.A[p[2]][p[2]],
                                    st.A[p[3]][p[3]], st.A[p[4]][p[4]]>>,
                  eigenVectors |->
                      [k \in 1..4 |->
                          [i \in 1..4 |-> IF n[i] THEN FNeg(st.V[k][p[i]])
                                          ELSE st.V[k][p[i]]]]] :
                 p \in {o \in [1..4 -> 1..4] : \A i, j \in 1..4 : i # j => o[i] # o[j]},
                 n \in [1..4 -> BOOLEAN]} :
               st \in {Jacobi([A |-> Q, V |-> Identity4], 0)}}

\* 249: the test that makes eigenvalue i the new choice.
ExceedsOrEquals(eigenValue, maxVal) ==
    FGt(FAbs(eigenValue), maxVal) \/ FEq(FAbs(eigenValue), maxVal)
Exceeds(eigenValue, maxVal) == FGt(FAbs(eigenValue), maxVal)

\* 246-251: the loop from eigenvalue i (of the code, from 0) on; the index chosen.
RECURSIVE SelectIndex(_, _, _, _)
SelectIndex(eigenValues, i, maxVal, indexMaxVal) ==
    IF i >= Len(eigenValues) THEN indexMaxVal
    ELSE IF Exceeds(eigenValues[i + 1], maxVal)
         THEN SelectIndex(eigenValues, i + 1, FAbs(eigenValues[i + 1]), i)
         ELSE SelectIndex(eigenValues, i + 1, maxVal, indexMaxVal)

\* 255-266: the rotation matrix of the quaternion rotQ.
RotationOf(rotQ) ==
    LET q0 == rotQ[1]
        q1 == rotQ[2]
        q2 == rotQ[3]
        q3 == rotQ[4]
        Minus(x, y) == FAdd(x, FNeg(y))
    IN  << <<Minus(Minus(FAdd(FSquare(q0), FSquare(q1)), FSquare(q2)), FSquare(q3)),
             FMul(FInt(2), Minus(FMul(q1, q2), FMul(q0, q3))),
             FMul(FInt(2), FAdd(FMul(q1, q3), FMul(q0, q2)))>>,
           <<FMul(FInt(2), FAdd(FMul(q1, q2), FMul(q0, q3))),
             Minus(Minus(FAdd(FSquare(q0), FSquare(q2)), FSquare(q1)), FSquare(q3)),
             FMul(FInt(2), Minus(FMul(q2, q3), FMul(q0, q1)))>>,
           <<FMul(FInt(2), Minus(FMul(q1, q3), FMul(q0, q2))),
             FMul(FInt(2), FAdd(FMul(q2, q3), FMul(q0, q1))),
             Minus(Minus(FAdd(FSquare(q0), FSquare(q3)), FSquare(q1)), FSquare(q2))>> >>


\* 270-276: the loop that adds up the two sums of the scale, from vertex i
\* on; acc is <<numerator, denominator>> before vertex i.
RECURSIVE ScaleSums(_, _, _, _, _, _, _, _, _)
ScaleSums(floatingWeights, floatingPositions, correspondingPositions, numFloatingVertices, rotMatTemp, floatingCentroid, correspondingCentroid, i, acc) ==
    IF i > numFloatingVertices THEN acc
    ELSE CHOOSE sums \in
           {ScaleSums(floatingWeights, floatingPositions, correspondingPositions,
                      numFloatingVertices, rotMatTemp, floatingCentroid,
                      correspondingCentroid, i + 1,
                      <<FAdd(acc[1], FMul(floatingWeights[i],
                                          Dot(centeredCorrespondingPosition,
                                              centeredFloatingPosition))),
                        FAdd(acc[2], FMul(floatingWeights[i],
                                          Dot(centeredFloatingPosition,
                                              centeredFloatingPosition)))>>) :
            centeredFloatingPosition \in
                {MatVec(rotMatTemp, VSub(floatingPositions[i], floatingCentroid), 1)},
            centeredCorrespondingPosition \in
                {VSub(correspondingPositions[i], correspondingCentroid)}} : TRUE

\* 268-277: the scale factor.
ScaleFactor(adjustScale, floatingWeights, floatingPositions, correspondingPositions, numFloatingVertices, rotMatTemp, floatingCentroid, correspondingCentroid) ==
    IF adjustScale
    THEN CHOOSE scaleFactor \in
           {FDiv(sums[1], sums[2]) :
            sums \in {ScaleSums(floatingWeights, floatingPositions, correspondingPositions,
                                numFloatingVertices, rotMatTemp, floatingCentroid,
                                correspondingCentroid, 1, <<F0, F0>>)}} : TRUE
    ELSE F1

\* 282-284: the identity with the translation in its last column.
TranslationMatrix(translation) ==
    << <<F1, F0, F0, translation[1]>>,
       <<F0, F1, F0, translation[2]>>,
       <<F0, F0, F1, translation[3]>>,
       <<F0, F0, F0, F1>> >>

\* 283-285: the identity with scaleFactor * rotMatTemp in its upper-left block.
RotationMatrix(scaleFactor, rotMatTemp) ==
    CHOOSE m \in {<< block[1] \o <<F0>>, block[2] \o <<F0>>, block[3] \o <<F0>>,
                     <<F0, F0, F0, F1>> >> :
                  block \in {M3Scale(scaleFactor, rotMatTemp)}} : TRUE

\* 286: the product as the code takes it, the rotation matrix on the left.
Compose(rotationMatrix, translationMatrix) == MatMat(rotationMatrix, translationMatrix, 1)


\* 291-295: the first numFloatingVertices columns, from vertex i on, each
\* replaced by its image; the columns after them are left as they are.
RECURSIVE Apply(_, _, _, _)
Apply(transformationMatrix, floatingPositions, numFloatingVertices, i) ==
    IF i > numFloatingVertices THEN SubSeq(floatingPositions, i, Len(floatingPositions))
    ELSE <<SubSeq(MatVec(transformationMatrix, floatingPositions[i] \o <<F1>>, 1), 1, 3)>>
         \o Apply(transformationMatrix, floatingPositions, numFloatingVertices, i + 1)

\* The inputs of the model.  A scene lists vertices, each a floating position
\* with its corresponding position, and for every vertex the weights a call
\* may give it; a call takes the first vertices of a scene.  A coordinate is
\* a number of tenths.
Point(x, y, z) == <<Float(x, 10), Float(y, 10), Float(z, 10)>>

\* The scenes.
\* Points of one axis, the corresponding ones doubled and moved by 1; any of
\* the weights 0, 0.5 and 1.
\* Points of one axis, the corresponding ones their opposites; weights 0, 1.
\* The corresponding positions are the floating ones after a half turn
\* about z: with three and with four vertices two eigenvalues of Q have the
\* largest absolute value.
\* Floating positions at 1.1 and 0.1 from the origin on two axes, the
\* corresponding ones at 1, those of the first axis mirrored: the second and
\* the third eigenvalue of Q are opposite numbers there but for the rounding
\* of the floats, which makes one the larger (with three vertices they are
\* 0.7555555555555555 and -0.7555555555555556).
\* The corresponding positions are the floating ones after a quarter turn
\* about z, the weights 1, 1 and 2: Q is not diagonal with two and with
\* three vertices, and its entries and eigenvalues are quarters.
\* The corresponding positions are the floating ones, off the axes, the
\* weights 0.3, 0.3 and 0.4: Q is not diagonal with two and with three
\* vertices, and its eigenvalues are no floats.
Scenes ==
    {[vertices |-> << <<Point(10, 0, 0), Point(30, 0, 0)>>,
                      <<Point(-10, 0, 0), Point(-10, 0, 0)>>,
                      <<Point(20, 0, 0), Point(50, 0, 0)>> >>,
      weights |-> <<{F0, Half, F1}, {F0, Half, F1}, {F0, Half, F1}>>],
     [vertices |-> << <<Point(10, 0, 0), Point(-10, 0, 0)>>,
                      <<Point(-10, 0, 0), Point(10, 0, 0)>>,
                      <<Point(20, 0, 0), Point(-20, 0, 0)>>,
                      <<Point(-20, 0, 0), Point(20, 0, 0)>> >>,
      weights |-> <<{F0, F1}, {F0, F1}, {F0, F1}, {F0, F1}>>],
     [vertices |-> << <<Point(10, 0, 0), Point(-10, 0, 0)>>,
                      <<Point(-10, 0, 0), Point(10, 0, 0)>>,
                      <<Point(0, 0, 10), Point(0, 0, 10)>>,
                      <<Point(0, 0, -10), Point(0, 0, -10)>> >>,
      weights |-> <<{F1}, {F1}, {F1}, {F1}>>],
     [vertices |-> << <<Point(0, 11, 0), Point(0, -10, 0)>>,
                      <<Point(0, -11, 0), Point(0, 10, 0)>>,
                      <<Point(-1, 0, 0), Point(-10, 0, 0)>>,
                      <<Point(1, 0, 0), Point(10, 0, 0)>> >>,
      weights |-> <<{Half}, {Half}, {Half}, {Half}>>],
     [vertices |-> << <<Point(10, 0, 0), Point(0, 10, 0)>>,
                      <<Point(-10, 0, 0), Point(0, -10, 0)>>,
                      <<Point(0, 0, 10), Point(0, 0, 10)>> >>,
      weights |-> <<{F1}, {F1}, {FInt(2)}>>],
     [vertices |-> << <<Point(1, 2, 0), Point(1, 2, 0)>>,
                      <<Point(0, 3, 0), Point(0, 3, 0)>>,
                      <<Point(0, 0, 7), Point(0, 0, 7)>> >>,
      weights |-> <<{Float(3, 10)}, {Float(3, 10)}, {Float(4, 10)}>>]}

\* The weights of the first m vertices of a scene.
RECURSIVE WeightTuples(_, _)
WeightTuples(weights, m) ==
    IF m = 0 THEN {<<>>}
    ELSE {t \o <<w>> : t \in WeightTuples(weights, m - 1), w \in weights[m]}

\* The module globals at the call.  The module as it is binds none of the
\* names the body reads; or a caller has bound the five of them: arrays of m
\* columns and entries, and a numFloatingVertices from 0 to m + 1.
InitRigid ==
    /\ pc = "ready"
    /\ fn = "rigid_transformation"
    /\ locals = <<>>
    /\ ret = None
    /\ err = ""
    /\ \/ args = [globalsBound |-> FALSE]
       \/ \E scene \in Scenes :
            \E m \in 1..Min(MaxVertices, Len(scene.vertices)) :
              \E n \in 0..(m + 1), floatingWeights \in WeightTuples(scene.weights, m),
                 adjustScale \in BOOLEAN :
                  args = [globalsBound |-> TRUE,
                          numFloatingVertices |-> n,
                          floatingPositions |-> Components(SubSeq(scene.vertices, 1, m), 1, 1),
                          correspondingPositions |-> Components(SubSeq(scene.vertices, 1, m), 2, 1),
                          floatingWeights |-> floatingWeights,
                          adjustScale |-> adjustScale]
    /\ args0 = args

\* The call, statement by statement; each \E binds the value a statement
\* computes, and the one over Eig takes what the solver returns.  Line 215
\* raises NameError when numFloatingVertices is not bound, after lines
\* 212-214 have set the centroids and the weight sum to zero.  With more
\* vertices than columns, line 216 raises IndexError at the first vertex
\* past the arrays, after the loop has added up the columns there are.
\* np.linalg.eig raises on a Q that is not finite.  Nothing has been written
\* when the call raises; otherwise the floating positions are written in
\* place.  Nothing is returned.
rigid_transformation ==
    /\ pc = "ready"
    /\ fn = "rigid_transformation"
    /\ IF ~args.globalsBound
       THEN /\ pc' = "raised"
            /\ err' = "NameError"
            /\ locals' = [weightSum |-> F0,
                          floatingCentroid |-> ZeroVector,
                          correspondingCentroid |-> ZeroVector]
            /\ UNCHANGED args
       ELSE IF args.numFloatingVertices > Len(args.floatingWeights)
       THEN /\ pc' = "raised"
            /\ err' = "IndexError"
            /\ locals' = [weightSum |-> WeightSum(args.floatingWeights,
                                                  Len(args.floatingWeights), 1, F0),
                          floatingCentroid |->
                              WeightedSum(args.floatingWeights, args.floatingPositions,
                                          Len(args.floatingWeights), 1, ZeroVector),
                          correspondingCentroid |->
                              WeightedSum(args.floatingWeights, args.correspondingPositions,
                                          Len(args.floatingWeights), 1, ZeroVector)]
            /\ UNCHANGED args
       ELSE
       \E weightSum \in {WeightSum(args.floatingWeights, args.numFloatingVertices, 1, F0)} :
       \E floatingCentroid \in
              {VDiv(WeightedSum(args.floatingWeights, args.floatingPositions,
                                args.numFloatingVertices, 1, ZeroVector), weightSum)} :
       \E correspondingCentroid \in
              {VDiv(WeightedSum(args.floatingWeights, args.correspondingPositions,
                                args.numFloatingVertices, 1, ZeroVector), weightSum)} :
       \E crossVarianceMatrix \in
              {CrossVariance(args.floatingWeights, args.floatingPositions,
                             args.correspondingPositions, args.numFloatingVertices, weightSum,
                             floatingCentroid, correspondingCentroid)} :
       \E Q \in {QMatrix(crossVarianceMatrix)} :
         IF NotFinite(Q)
         THEN /\ pc' = "raised"
              /\ err' = "LinAlgError"
              /\ locals' = [weightSum |-> weightSum,
                            floatingCentroid |-> floatingCentroid,
                            correspondingCentroid |-> correspondingCentroid,
                            Q |-> Q]
              /\ UNCHANGED args
         ELSE \E eig \in Eig(Q) :
              \E indexMaxVal \in {SelectIndex(eig.eigenValues, 0, F0, 0)} :
              \E rotQ \in {Components(eig.eigenVectors, indexMaxVal + 1, 1)} :
              \E rotMatTemp \in {RotationOf(rotQ)} :
              \E scaleFactor \in
                     {ScaleFactor(args.adjustScale, args.floatingWeights, args.floatingPositions,
                                  args.correspondingPositions, args.numFloatingVertices,
                                  rotMatTemp, floatingCentroid, correspondingCentroid)} :
              \E translation \in
                     {VSub(correspondingCentroid,
                           VScale(scaleFactor, MatVec(rotMatTemp, floatingCentroid, 1)))} :
              \E transformationMatrix \in
                     {Compose(RotationMatrix(scaleFactor, rotMatTemp),
                              TranslationMatrix(translation))} :
                /\ pc' = "returned"
                /\ args' = [args EXCEPT !.floatingPositions =
                                            Apply(transformationMatrix, args.floatingPositions,
                                                  args.numFloatingVertices, 1)]
                /\ locals' = [weightSum |-> weightSum,
                              floatingCentroid |-> floatingCentroid,
                              correspondingCentroid |-> correspondingCentroid,
                              Q |-> Q,
                              eigenValues |-> eig.eigenValues,
                              rotQ |-> rotQ,
                              indexMaxVal |-> indexMaxVal,
                              rotMatTemp |-> rotMatTemp,
                              scaleFactor |-> scaleFactor,
                              translation |-> translation,
                              transformationMatrix |-> transformationMatrix]
                /\ UNCHANGED err
    /\ UNCHANGED <<fn, ret, args0>>

SpecRigid == InitRigid /\ [][rigid_transformation]_vars

\* C4: when rigid_transformation finishes with a finite scale, the 4x4 matrix
\* it composed has s*R in its upper-left block and the translation t in its
\* last column, and every floating position x_i has become s*R*x_i + t.
C4_ComposedTransformation ==
    (pc = "returned" /\ fn = "rigid_transformation" /\ locals.scaleFactor.kind = "finite") =>
        LET scaledRotation == M3Scale(locals.scaleFactor, locals.rotMatTemp)
        IN  /\ \A i \in 1..3 :
                 /\ \A j \in 1..3 : FEq(locals.transformationMatrix[i][j], scaledRotation[i][j])
                 /\ FEq(locals.transformationMatrix[i][4], locals.translation[i])
            /\ \A j \in 1..4 : FEq(locals.transformationMatrix[4][j], Identity4[4][j])
            /\ \A i \in 1..args.numFloatingVertices :
                 \A c \in 1..3 :
                   FEq(args.floatingPositions[i][c],
                       VAdd(MatVec(scaledRotation, args0.floatingPositions[i], 1),
                            locals.translation)[c])


\* C8: when the weights (bound by the caller) that the call adds up sum to
\* 0, the call of rigid_transformation fails with DegenerateState, no
\* centroid has been divided by the weight sum, and the floating positions
\* are as the caller passed them.
C8_ZeroWeightGuard ==
    (pc # "ready" /\ fn = "rigid_transformation" /\ args0.globalsBound
       /\ args0.numFloatingVertices <= Len(args0.floatingWeights)
       /\ FIsZero(WeightSum(args0.floatingWeights, args0.numFloatingVertices, 1, F0))) =>
        /\ pc = "raised"
        /\ err = "DegenerateState"
        /\ \A c \in 1..3 : locals.floatingCentroid[c].kind = "finite"
        /\ args.floatingPositions = args0.floatingPositions

\* C9: when rigid_transformation finishes, the index chosen for the rotation
\* quaternion (counted from 0) is the smallest index whose eigenvalue has the
\* largest absolute value: no eigenvalue exceeds it in absolute value, every
\* earlier one is strictly smaller in absolute value (so a negative eigenvalue
\* is chosen over a positive one of smaller absolute value), and the index is 0
\* when every eigenvalue is 0.
C9_DominantEigenvalue ==
    (pc = "returned" /\ fn = "rigid_transformation") =>
        LET eigenValues == locals.eigenValues
            chosen == FAbs(eigenValues[locals.indexMaxVal + 1])
        IN  /\ locals.indexMaxVal \in 0..3
            /\ \A j \in 1..4 : ~FGt(FAbs(eigenValues[j]), chosen)
            /\ \A j \in 1..locals.indexMaxVal : FLt(FAbs(eigenValues[j]), chosen)
            /\ (\A j \in 1..4 : FIsZero(eigenValues[j])) => locals.indexMaxVal = 0

\* A finished call that chose a negative eigenvalue, not the first, over a
\* positive one of smaller absolute value and ahead of a later one of the same
\* absolute value.
C9_Witness ==
    /\ pc = "returned"
    /\ fn = "rigid_transformation"
    /\ locals.indexMaxVal > 0
    /\ FLt(locals.eigenValues[locals.indexMaxVal + 1], F0)
    /\ \E j \in 1..4 :
         /\ FGt(locals.eigenValues[j], F0)
         /\ FLt(locals.eigenValues[j], FAbs(locals.eigenValues[locals.indexMaxVal + 1]))
    /\ \E j \in (locals.indexMaxVal + 2)..4 :
         FEq(FAbs(locals.eigenValues[j]), FAbs(locals.eigenValues[locals.indexMaxVal + 1]))

====
